---------------------------- MODULE Spec2Model ----------------------------
(***************************************************************************)
(* Model of app/app.py: a greeter HTTP server built on http.server.        *)
(*                                                                         *)
(* The module models instances of the program (operating system            *)
(* processes that share one table of bound TCP ports), each running        *)
(*     PORT = int(os.environ.get('PORT', 8080))       (line 8)             *)
(*     httpd = HTTPServer(('', PORT), SimpleHandler)  (line 23)            *)
(*     print('Starting Python web server ...')        (line 24)            *)
(*     httpd.serve_forever()                          (line 25)            *)
(* and clients that connect, send one request and read the answer.         *)
(* SimpleHandler defines do_GET and log_message only (lines 10-19); what   *)
(* it inherits from BaseHTTPRequestHandler / HTTPServer (request parsing,  *)
(* method dispatch, send_error, the single-threaded accept loop) is        *)
(* modelled after the CPython 3.11 standard library the program imports.   *)
(***************************************************************************)
EXTENDS Integers, Sequences, FiniteSets, TLC

\* ------------------------------------------------------------ bounds
\* Number of client connections that may be opened during a run.
MaxClients == 2

\* ------------------------------------------------------------ constants
None == "None"

\* The instances of the program: a first one and a second one.
Procs == {"i1", "i2"}

Clients == 1..MaxClients

\* Default of os.environ.get('PORT', 8080), line 8.
DefaultPort == 8080

\* socket.bind() accepts ports 0..65535 (OverflowError otherwise).
MaxPortNumber == 65535

\* Ports the kernel hands out when asked to bind port 0.
EphemeralPorts == {32768, 32769}

\* Body written by do_GET, line 15.
Greeting == "Hello from secure CI/CD with SLSA + Cosign (Python Edition)!\n"

\* ------------------------------------------------------------ int()
\* A value of the PORT environment variable is a sequence of characters.
DigitChars == {"0", "1", "2", "3", "4", "5", "6", "7", "8", "9"}

DigitVal(ch) ==
    CASE ch = "0" -> 0 [] ch = "1" -> 1 [] ch = "2" -> 2 [] ch = "3" -> 3
      [] ch = "4" -> 4 [] ch = "5" -> 5 [] ch = "6" -> 6 [] ch = "7" -> 7
      [] ch = "8" -> 8 [] ch = "9" -> 9

IsSpace(ch) == ch \in {" ", "\t", "\n", "\r"}

RECURSIVE LStrip(_)
LStrip(s) ==
    IF s # <<>> /\ IsSpace(Head(s)) THEN LStrip(Tail(s)) ELSE s

RECURSIVE RStrip(_)
RStrip(s) ==
    IF s # <<>> /\ IsSpace(s[Len(s)]) THEN RStrip(SubSeq(s, 1, Len(s) - 1)) ELSE s

\* Digits with single underscores allowed between digits (Python literals).
RECURSIVE DigitsOK(_, _)
DigitsOK(s, prevDigit) ==
    IF s = <<>> THEN prevDigit
    ELSE IF Head(s) \in DigitChars THEN DigitsOK(Tail(s), TRUE)
    ELSE IF Head(s) = "_" THEN prevDigit /\ DigitsOK(Tail(s), FALSE)
    ELSE FALSE

RECURSIVE DigitsValue(_, _)
DigitsValue(s, acc) ==
    IF s = <<>> THEN acc
    ELSE IF Head(s) = "_" THEN DigitsValue(Tail(s), acc)
    ELSE DigitsValue(Tail(s), 10 * acc + DigitVal(Head(s)))

\* int(str): [ok |-> TRUE, val |-> n], or ok = FALSE for ValueError.
IntOfStr(s) ==
    LET t == RStrip(LStrip(s))
        signed == t # <<>> /\ Head(t) \in {"+", "-"}
        d == IF signed THEN Tail(t) ELSE t
    IN  IF d # <<>> /\ DigitsOK(d, FALSE)
        THEN [ok |-> TRUE,
              val |-> IF signed /\ Head(t) = "-"
                      THEN 0 - DigitsValue(d, 0) ELSE DigitsValue(d, 0)]
        ELSE [ok |-> FALSE, val |-> 0]

\* The environment either holds PORT (a string) or does not.
Unset == [set |-> FALSE, text |-> <<>>]

SetTo(s) == [set |-> TRUE, text |-> s]

\* A lookup that misses the variable and always yields the default.
EnvironGet_IgnoresEnv(e) ==
    [type |-> "int", text |-> <<>>, num |-> DefaultPort]

\* os.environ.get('PORT', 8080): the variable's text, or the int default.
EnvironGet(e) ==
    IF e.set THEN [type |-> "str", text |-> e.text, num |-> 0]
    ELSE [type |-> "int", text |-> <<>>, num |-> DefaultPort]

\* A conversion that falls back to the default port on unparsable text.
int_Fallback(x) ==
    IF x.type = "int" THEN [ok |-> TRUE, val |-> x.num]
    ELSE IF IntOfStr(x.text).ok THEN IntOfStr(x.text)
    ELSE [ok |-> TRUE, val |-> DefaultPort]

\* int(x): int() of an int is that int, int() of a str parses it.
int(x) ==
    IF x.type = "int" THEN [ok |-> TRUE, val |-> x.num] ELSE IntOfStr(x.text)

\* Values of PORT in the environment the instances are started with.
PortEnvs ==
    { Unset,
      SetTo(<<"9", "0", "9", "0">>),
      SetTo(<<"8", "0", "8", "0">>),
      SetTo(<<" ", "9", "0", "9", "0", "\n">>),
      SetTo(<<"a", "b", "c">>),
      SetTo(<<>>),
      SetTo(<<"9", "0", "9", "0", "x">>),
      SetTo(<<"7", "0", "0", "0", "0">>),
      SetTo(<<"-", "1">>),
      SetTo(<<"0">>) }

\* ------------------------------------------------------------ requests
\* A request as a client sends it: the words of its request line (what
\* str.split() yields) and the value of its Accept header ("" when absent).
V10 == "HTTP/1.0"

V11 == "HTTP/1.1"

Req(line, accept) == [line |-> line, accept |-> accept]

JSON == "application/json"

\* The requests clients send in the checked runs: every shape of request
\* line parse_request tells apart, with and without an Accept header.
Requests ==
    { Req(<<"GET", "/", V11>>, ""),
      Req(<<"GET", "/x", V10>>, JSON),
      Req(<<"POST", "/", V11>>, ""),
      Req(<<"PUT", "/x", V10>>, JSON),
      Req(<<"HEAD", "/", V11>>, JSON),
      Req(<<"GET", "/">>, ""),
      Req(<<"POST", "/">>, ""),
      Req(<<"GET", "/", "HTTP/2.0">>, ""),
      Req(<<"GET", "/", "FOO/1.1">>, JSON),
      Req(<<"GET">>, ""),
      Req(<<>>, "") }

\* Well-formed HTTP/1.x GET requests.
GetRequests ==
    { Req(<<"GET", "/", V11>>, ""), Req(<<"GET", "/x", V10>>, JSON) }

\* version.startswith('HTTP/') and both parts of the number are digits:
\* the (major, minor) pair of a version word, or ok = FALSE (ValueError).
ParseVersion(w) ==
    CASE w = "HTTP/0.9" -> [ok |-> TRUE, num |-> <<0, 9>>]
      [] w = "HTTP/1.0" -> [ok |-> TRUE, num |-> <<1, 0>>]
      [] w = "HTTP/1.1" -> [ok |-> TRUE, num |-> <<1, 1>>]
      [] w = "HTTP/2.0" -> [ok |-> TRUE, num |-> <<2, 0>>]
      [] OTHER -> [ok |-> FALSE, num |-> <<0, 0>>]

\* Tuple comparison version_number >= (a, b).
VersionGE(n, m) == n[1] > m[1] \/ (n[1] = m[1] /\ n[2] >= m[2])

\* ------------------------------------------------------------ handler
\* BaseHTTPRequestHandler.default_request_version
DefaultRequestVersion == "HTTP/0.9"

\* BaseHTTPRequestHandler.error_content_type
ErrorContentType == "text/html;charset=utf-8"

\* The page send_error formats from DEFAULT_ERROR_MESSAGE.
ErrorPage == "<!DOCTYPE HTML><html>Error response</html>"

NoOutput == [statusline |-> <<>>, headers |-> <<>>, body |-> ""]

\* A handler object, made for one accepted connection.
NewHandler(addr) ==
    [client_address |-> addr,
     requestline |-> <<>>,
     request_version |-> DefaultRequestVersion,
     command |-> None,
     path |-> None,
     headers |-> [accept |-> ""],
     out |-> NoOutput,
     log |-> <<>>]

\* BaseHTTPRequestHandler.address_string: the client's host.
address_string(h) == h.client_address

\* log_message as inherited (written to stderr): nothing reaches stdout.
log_message_ToStderr(h, kind, code, message) == h

\* SimpleHandler.log_message, lines 17-19: one line on standard output,
\* "<address> - <format % args>".
log_message(h, kind, code, message) ==
    [h EXCEPT !.log = Append(@, [addr |-> address_string(h),
                                 kind |-> kind,
                                 requestline |-> h.requestline,
                                 code |-> code,
                                 message |-> message])]

\* log_request: log_message('"%s" %s %s', requestline, code, size)
log_request(h, code) == log_message(h, "request", code, "-")

\* log_error: log_message(format, *args)
log_error(h, code, message) == log_message(h, "error", code, message)

\* send_response_only: the status line, omitted for an HTTP/0.9 request.
send_response_only(h, code) ==
    IF h.request_version # DefaultRequestVersion
    THEN [h EXCEPT !.out.statusline = <<code>>]
    ELSE h

\* send_header: a header line, omitted for an HTTP/0.9 request.
send_header(h, keyword, value) ==
    IF h.request_version # DefaultRequestVersion
    THEN [h EXCEPT !.out.headers = Append(@, <<keyword, value>>)]
    ELSE h

\* send_response: logs the request, then writes the status line
\* (the Server and Date headers it adds are left out of the model).
send_response(h, code) == send_response_only(log_request(h, code), code)

\* wfile.write(body)
wfile_write(h, body) == [h EXCEPT !.out.body = body]

\* send_error(code, message): log_error, send_response, Connection: close,
\* the error page's Content-Type, and the page itself unless the command
\* is HEAD.
send_error(h, code, message) ==
    LET h1 == log_error(h, code, message)
        h2 == send_response(h1, code)
        h3 == send_header(h2, "Connection", "close")
        h4 == send_header(h3, "Content-Type", ErrorContentType)
    IN  IF h.command # "HEAD" THEN wfile_write(h4, ErrorPage) ELSE h4

\* do_GET with the greeting's final newline dropped.
do_GET_NoNewline(h) ==
    LET h1 == send_response(h, 200)
        h2 == send_header(h1, "Content-Type", "text/plain")
    IN  wfile_write(h2, "Hello from secure CI/CD with SLSA + Cosign (Python Edition)!")

\* do_GET answering in the media type the request's Accept header names.
do_GET_Negotiating(h) ==
    LET h1 == send_response(h, 200)
        h2 == send_header(h1, "Content-Type",
                  IF h.headers.accept = "" THEN "text/plain"
                  ELSE h.headers.accept)
    IN  wfile_write(h2, Greeting)

\* SimpleHandler.do_GET, lines 11-15.
do_GET(h) ==
    LET h1 == send_response(h, 200)
        h2 == send_header(h1, "Content-Type", "text/plain")
    IN  wfile_write(h2, Greeting)

\* The do_* methods SimpleHandler has (hasattr(self, 'do_' + command)).
HandlerMethods == {"GET"}

\* BaseHTTPRequestHandler.parse_request: [ok, h].  ok = FALSE means the
\* request was rejected (an error was sent, or the line was blank).
parse_request(h0, req) ==
    LET words == req.line
        h == [h0 EXCEPT !.requestline = words]
        n == Len(words)
        v == IF n >= 3 THEN ParseVersion(words[n])
             ELSE [ok |-> TRUE, num |-> <<0, 9>>]
        hv == IF n >= 3 THEN [h EXCEPT !.request_version = words[n]] ELSE h
    IN  IF n = 0 THEN [ok |-> FALSE, h |-> h]
        ELSE IF n >= 3 /\ ~v.ok
        THEN [ok |-> FALSE, h |-> send_error(h, 400, "Bad request version")]
        ELSE IF n >= 3 /\ VersionGE(v.num, <<2, 0>>)
        THEN [ok |-> FALSE, h |-> send_error(h, 505, "Invalid HTTP version")]
        ELSE IF ~(2 <= n /\ n <= 3)
        THEN [ok |-> FALSE, h |-> send_error(hv, 400, "Bad request syntax")]
        ELSE IF n = 2 /\ words[1] # "GET"
        THEN [ok |-> FALSE,
              h |-> send_error(hv, 400, "Bad HTTP/0.9 request type")]
        ELSE [ok |-> TRUE,
              h |-> [hv EXCEPT !.command = words[1], !.path = words[2],
                               !.headers = [accept |-> req.accept]]]

\* BaseHTTPRequestHandler.handle_one_request on the request read from the
\* connection: parse it, dispatch on 'do_' + command, 501 when the handler
\* has no such method.
handle_one_request(addr, req) ==
    LET p == parse_request(NewHandler(addr), req)
    IN  IF ~p.ok THEN p.h
        ELSE IF p.h.command \notin HandlerMethods
        THEN send_error(p.h, 501, "Unsupported method")
        ELSE do_GET(p.h)

\* ------------------------------------------------------------ state
VARIABLES
    env,      \* env[p]: PORT in the environment instance p is started with
    pc,       \* pc[p]: where instance p is in the program
    PORT,     \* PORT[p]: the module global of line 8, <<>> until assigned
    ports,    \* the host's listening sockets: records [port, owner]
    stdout,   \* stdout[p]: the lines instance p has printed
    error,    \* error[p]: the exception that ended instance p, or None
    backlog,  \* backlog[p]: connections waiting in p's accept queue
    current,  \* current[p]: the connections p's handler is working on
    conn      \* conn[c]: client c's connection

vars == <<env, pc, PORT, ports, stdout, error, backlog, current, conn>>

\* Line printed by run_server, line 24.
StartupMessage(port) == [kind |-> "startup", port |-> port]

\* pc values in which the instance's listening socket exists.
HasSocket == {"bound", "serving", "listening", "handling"}

\* pc values of the serve_forever loop.
Serving == {"listening", "handling"}

Live == {"start", "resolved"} \cup HasSocket

FreshConn ==
    [state |-> "idle", server |-> None, sent |-> FALSE,
     req |-> [line |-> <<>>, accept |-> ""], resp |-> NoOutput]

InitWith(envs) ==
    /\ env \in [Procs -> envs]
    /\ pc = [p \in Procs |-> "start"]
    /\ PORT = [p \in Procs |-> <<>>]
    /\ ports = {}
    /\ stdout = [p \in Procs |-> <<>>]
    /\ error = [p \in Procs |-> None]
    /\ backlog = [p \in Procs |-> <<>>]
    /\ current = [p \in Procs |-> {}]
    /\ conn = [c \in Clients |-> FreshConn]

PortOf(p) == {s.port : s \in {t \in ports : t.owner = p}}

InUse(n) == \E s \in ports : s.port = n

\* ------------------------------------------------------------ startup
\* Line 8, run when the module is loaded: PORT = int(os.environ.get(...)).
\* A ValueError is not caught and ends the process.
ResolvePort(p) ==
    /\ pc[p] = "start"
    /\ LET r == int(EnvironGet(env[p]))
       IN  IF r.ok
           THEN /\ PORT' = [PORT EXCEPT ![p] = <<r.val>>]
                /\ pc' = [pc EXCEPT ![p] = "resolved"]
                /\ UNCHANGED error
           ELSE /\ pc' = [pc EXCEPT ![p] = "crashed"]
                /\ error' = [error EXCEPT ![p] = "ValueError"]
                /\ UNCHANGED PORT
    /\ UNCHANGED <<env, ports, stdout, backlog, current, conn>>

\* A bind that shares a port already in use (SO_REUSEPORT).
BindChoices_Reuse(n) ==
    IF n < 0 \/ n > MaxPortNumber THEN {}
    ELSE IF n = 0 THEN {q \in EphemeralPorts : ~InUse(q)}
    ELSE {n}

\* The port socket.bind(('', n)) binds: n itself, any free ephemeral port
\* for n = 0; none when n is out of range or already in use.
BindChoices(n) ==
    IF n < 0 \/ n > MaxPortNumber THEN {}
    ELSE IF n = 0 THEN {q \in EphemeralPorts : ~InUse(q)}
    ELSE IF InUse(n) THEN {} ELSE {n}

BindError(n) ==
    IF n < 0 \/ n > MaxPortNumber THEN "OverflowError" ELSE "OSError"

\* Lines 22-23: HTTPServer(('', PORT), SimpleHandler) binds and listens.
\* The exception of a failed bind is not caught and ends the process.
Bind(p) ==
    /\ pc[p] = "resolved"
    /\ LET n == PORT[p][1]
       IN  IF BindChoices(n) = {}
           THEN /\ pc' = [pc EXCEPT ![p] = "crashed"]
                /\ error' = [error EXCEPT ![p] = BindError(n)]
                /\ UNCHANGED ports
           ELSE /\ \E q \in BindChoices(n) :
                      ports' = ports \cup {[port |-> q, owner |-> p]}
                /\ pc' = [pc EXCEPT ![p] = "bound"]
                /\ UNCHANGED error
    /\ UNCHANGED <<env, PORT, stdout, backlog, current, conn>>

\* run_server with lines 23 and 24 swapped: the message is printed before
\* the server is constructed.
PrintStartup_BeforeBind(p) ==
    /\ pc[p] \in {"resolved", "bound"}
    /\ IF pc[p] = "resolved"
       THEN /\ stdout[p] = <<>>
            /\ stdout' = [stdout EXCEPT ![p] = Append(@, StartupMessage(PORT[p][1]))]
            /\ UNCHANGED pc
       ELSE /\ pc' = [pc EXCEPT ![p] = "serving"]
            /\ UNCHANGED stdout
    /\ UNCHANGED <<env, PORT, ports, error, backlog, current, conn>>

\* Line 24: print(f'Starting Python web server on port {PORT}...').
PrintStartup(p) ==
    /\ pc[p] = "bound"
    /\ stdout' = [stdout EXCEPT ![p] = Append(@, StartupMessage(PORT[p][1]))]
    /\ pc' = [pc EXCEPT ![p] = "serving"]
    /\ UNCHANGED <<env, PORT, ports, error, backlog, current, conn>>

\* Line 25: httpd.serve_forever() enters the accept loop.
ServeForever(p) ==
    /\ pc[p] = "serving"
    /\ pc' = [pc EXCEPT ![p] = "listening"]
    /\ UNCHANGED <<env, PORT, ports, stdout, error, backlog, current, conn>>

\* ------------------------------------------------------------ serving
\* A server that serves a single connection (handle_request() in place of
\* serve_forever()).
CanAccept_Once(p) ==
    /\ pc[p] = "listening"
    /\ \A c \in Clients : conn[c].server = p => conn[c].state = "queued"

\* An accept loop that does not wait for the handler (a threading server).
CanAccept_Threaded(p) == pc[p] \in Serving

\* serve_forever's loop is single-threaded (HTTPServer is a plain
\* TCPServer): it accepts a connection only when it is not handling one.
CanAccept(p) == pc[p] = "listening"

\* serve_forever -> _handle_request_noblock: accept the oldest connection
\* of the queue and start a handler for it.
Accept(p) ==
    /\ pc[p] \in Serving
    /\ CanAccept(p)
    /\ backlog[p] # <<>>
    /\ LET c == Head(backlog[p])
       IN  /\ current' = [current EXCEPT ![p] = @ \cup {c}]
           /\ conn' = [conn EXCEPT ![c].state =
                          IF @ = "queued" THEN "accepted" ELSE @]
    /\ backlog' = [backlog EXCEPT ![p] = Tail(@)]
    /\ pc' = [pc EXCEPT ![p] = "handling"]
    /\ UNCHANGED <<env, PORT, ports, stdout, error>>

\* A read that gives up on a silent client (a socket timeout).
CanRead_Timeout(c) == TRUE

\* The handler can go on once rfile.readline() returns: the client has
\* sent its request, or has closed the connection (end of file).  The
\* handler sets no timeout, so until then it blocks.
CanRead(c) == conn[c].sent \/ conn[c].state = "closed"

\* StreamRequestHandler.handle on connection c, then finish and return to
\* the accept loop.  End of file without a request: nothing is written.
Handle(p, c) ==
    /\ pc[p] = "handling"
    /\ c \in current[p]
    /\ CanRead(c)
    /\ LET h == handle_one_request(c, conn[c].req)
       IN  IF conn[c].sent
           THEN /\ stdout' = [stdout EXCEPT ![p] = @ \o h.log]
                /\ conn' = [conn EXCEPT ![c] =
                      IF @.state = "closed" THEN @
                      ELSE [@ EXCEPT !.state = "done", !.resp = h.out]]
           ELSE /\ UNCHANGED <<stdout, conn>>
    /\ current' = [current EXCEPT ![p] = @ \ {c}]
    /\ pc' = [pc EXCEPT ![p] = IF current[p] = {c} THEN "listening" ELSE @]
    /\ UNCHANGED <<env, PORT, ports, error, backlog>>

\* An external signal ends the instance; its sockets are closed.
Kill(p) ==
    /\ pc[p] \in Live
    /\ pc' = [pc EXCEPT ![p] = "killed"]
    /\ ports' = {s \in ports : s.owner # p}
    /\ backlog' = [backlog EXCEPT ![p] = <<>>]
    /\ current' = [current EXCEPT ![p] = {}]
    /\ conn' = [c \in Clients |->
                 IF conn[c].server = p /\ conn[c].state \in {"queued", "accepted"}
                 THEN [conn[c] EXCEPT !.state = "reset"] ELSE conn[c]]
    /\ UNCHANGED <<env, PORT, stdout, error>>

\* ------------------------------------------------------------ clients
\* A client connects to an instance's listening socket; the kernel queues
\* the connection until the instance accepts it.
Connect(c, p) ==
    /\ conn[c].state = "idle"
    /\ pc[p] \in HasSocket
    /\ conn' = [conn EXCEPT ![c].state = "queued", ![c].server = p]
    /\ backlog' = [backlog EXCEPT ![p] = Append(@, c)]
    /\ UNCHANGED <<env, pc, PORT, ports, stdout, error, current>>

\* A connected client sends its request.
Send(c, r) ==
    /\ conn[c].state \in {"queued", "accepted"}
    /\ ~conn[c].sent
    /\ conn' = [conn EXCEPT ![c].sent = TRUE, ![c].req = r]
    /\ UNCHANGED <<env, pc, PORT, ports, stdout, error, backlog, current>>

\* A connected client that has not been answered gives up and closes.
Close(c) ==
    /\ conn[c].state \in {"queued", "accepted"}
    /\ conn' = [conn EXCEPT ![c].state = "closed"]
    /\ UNCHANGED <<env, pc, PORT, ports, stdout, error, backlog, current>>

\* ------------------------------------------------------------ specifications
Startup(p) ==
    \/ ResolvePort(p)
    \/ Bind(p)
    \/ PrintStartup(p)
    \/ ServeForever(p)

\* Serving: one instance is started without PORT and serves; the other is
\* started with an empty PORT.  Clients send any of Requests, or give up.
Init ==
    /\ InitWith({Unset, SetTo(<<>>)})
    /\ env["i1"] = Unset
    /\ env["i2"] = SetTo(<<>>)

Next ==
    \/ \E p \in Procs : Startup(p)
    \/ \E p \in Procs : Accept(p)
    \/ \E p \in Procs, c \in Clients : Handle(p, c)
    \/ \E c \in Clients, p \in Procs : Connect(c, p)
    \/ \E c \in Clients, r \in Requests : Send(c, r)
    \/ \E c \in Clients : Close(c)

Spec == Init /\ [][Next]_vars

\* Startup: the instances are started with every value of PORT, may be
\* killed at any time, and one client probes them with a GET.
InitBoot == InitWith(PortEnvs)

NextBoot ==
    \/ \E p \in Procs : Startup(p)
    \/ \E p \in Procs : Kill(p)
    \/ \E p \in Procs : Accept(p)
    \/ \E p \in Procs : Handle(p, 1)
    \/ \E p \in Procs : Connect(1, p)
    \/ \E r \in GetRequests : Send(1, r)

SpecBoot == InitBoot /\ [][NextBoot]_vars

\* Concurrent GETs: every client that connects sends a GET and waits; the
\* instances and the clients keep taking their steps.
NextGets ==
    \/ \E p \in Procs : Startup(p)
    \/ \E p \in Procs : Accept(p)
    \/ \E p \in Procs, c \in Clients : Handle(p, c)
    \/ \E c \in Clients, p \in Procs : Connect(c, p)
    \/ \E c \in Clients, r \in GetRequests : Send(c, r)

SpecGets ==
    /\ Init
    /\ [][NextGets]_vars
    /\ \A p \in Procs : WF_vars(Startup(p))
    /\ \A p \in Procs : WF_vars(Accept(p))
    /\ \A p \in Procs : WF_vars(\E c \in Clients : Handle(p, c))
    /\ \A c \in Clients : WF_vars(\E r \in GetRequests : Send(c, r))

\* ------------------------------------------------------------ claims
\* Connections whose request an instance has finished handling.
Done(c) == conn[c].state = "done"

\* A request line of method, path and an HTTP/1.0 or HTTP/1.1 version.
WellFormed(r) == Len(r.line) = 3 /\ r.line[3] \in {V10, V11}

Method(r) == r.line[1]

ContentTypes(resp) ==
    {resp.headers[i][2] : i \in {j \in DOMAIN resp.headers :
                                    resp.headers[j][1] = "Content-Type"}}

\* C1 as stated: every well-formed request, whatever its method and path,
\* is answered with status 200 and the fixed greeting as body.
C1_AnyMethod200 ==
    \A c \in Clients :
        Done(c) /\ WellFormed(conn[c].req) =>
            /\ conn[c].resp.statusline = <<200>>
            /\ conn[c].resp.body = Greeting

\* C1 amended: for every path, a well-formed HTTP/1.x GET request is
\* answered with status 200 and exactly the fixed greeting; a well-formed
\* request with any other method is answered with status 501 and never
\* with the greeting.
C1_Get200Others501 ==
    \A c \in Clients :
        Done(c) /\ WellFormed(conn[c].req) =>
            IF Method(conn[c].req) = "GET"
            THEN /\ conn[c].resp.statusline = <<200>>
                 /\ conn[c].resp.body = Greeting
            ELSE /\ conn[c].resp.statusline = <<501>>
                 /\ conn[c].resp.body # Greeting

\* A GET on /x and a request with another method have both been answered.
C1_Witness ==
    \E c, d \in Clients :
        /\ Done(c) /\ WellFormed(conn[c].req)
        /\ Method(conn[c].req) = "GET" /\ conn[c].req.line[2] = "/x"
        /\ Done(d) /\ WellFormed(conn[d].req)
        /\ Method(conn[d].req) \in {"POST", "PUT", "HEAD"}

Range(s) == {s[i] : i \in DOMAIN s}

\* The access log of instance p: what it printed after the startup message.
LogLines(p) == SelectSeq(stdout[p], LAMBDA l : l.kind # "startup")

LinesOf(p, c) == {i \in DOMAIN LogLines(p) : LogLines(p)[i].addr = c}

\* The clients whose request (a non-blank request line) instance p has
\* read and finished handling, whether or not the client stayed to read
\* the answer.
HandledRequests(p) ==
    {c \in Clients :
        /\ conn[c].server = p /\ conn[c].sent /\ conn[c].req.line # <<>>
        /\ conn[c].state \in {"done", "closed"}
        /\ c \notin current[p] /\ c \notin Range(backlog[p])}

\* Requests do_GET answers: GET with an HTTP/1.x version or with none.
AnsweredByGet(r) ==
    /\ Len(r.line) \in {2, 3} /\ Method(r) = "GET"
    /\ (Len(r.line) = 3 => r.line[3] \in {V10, V11})

\* C6 as stated: the number of log lines an instance has written equals
\* the number of requests it has handled, of any method.
C6_OneLinePerRequest ==
    \A p \in Procs : Len(LogLines(p)) = Cardinality(HandledRequests(p))

\* C6 amended: each handled request that do_GET answers produces exactly
\* one log line, with the client's address, the request line and status
\* 200; each handled request that is rejected with an error response (an
\* unsupported method, a malformed request line) produces exactly two, an
\* error line and then the request line, both with the client's address;
\* nothing else is logged.  So the number of log lines is the number of
\* requests handled plus the number of error responses.
C6_LogLinesPerRequest ==
    \A p \in Procs :
        /\ \A c \in Clients :
              LET idx == LinesOf(p, c)
                  L == LogLines(p)
              IN  IF c \notin HandledRequests(p) THEN idx = {}
                  ELSE /\ \A i \in idx : L[i].requestline = conn[c].req.line
                       /\ IF AnsweredByGet(conn[c].req)
                          THEN /\ Cardinality(idx) = 1
                               /\ \A i \in idx :
                                     L[i].kind = "request" /\ L[i].code = 200
                          ELSE /\ Cardinality(idx) = 2
                               /\ \E i \in idx :
                                     /\ i + 1 \in idx
                                     /\ L[i].kind = "error"
                                     /\ L[i + 1].kind = "request"
                                     /\ L[i].code = L[i + 1].code
                                     /\ L[i].code >= 400
        /\ Len(LogLines(p)) =
              Cardinality(HandledRequests(p))
              + Cardinality({c \in HandledRequests(p) :
                                ~AnsweredByGet(conn[c].req)})

\* An instance has handled a GET and a request with an unsupported method,
\* and has written three log lines for the two.
C6_Witness ==
    \E p \in Procs : \E c, d \in HandledRequests(p) :
        /\ Method(conn[c].req) = "GET" /\ AnsweredByGet(conn[c].req)
        /\ WellFormed(conn[d].req) /\ Method(conn[d].req) = "POST"
        /\ Len(LogLines(p)) = 3

\* C8: a serving instance is in exactly one of the states Listening (no
\* connection being handled) and Handling-Request (exactly one connection
\* being handled), never handling two at a time; it leaves Listening only
\* by accepting the oldest waiting connection, and leaves Handling-Request
\* only back to Listening, when that connection's handling has finished.
C8_OneRequestAtATime ==
    [][\A p \in Procs :
          /\ pc'[p] \in Serving =>
                /\ Cardinality(current'[p]) <= 1
                /\ (pc'[p] = "listening") = (current'[p] = {})
                /\ (pc'[p] = "handling") = (Cardinality(current'[p]) = 1)
          /\ pc[p] = "listening" /\ pc'[p] # "listening" =>
                /\ pc'[p] = "handling"
                /\ backlog[p] # <<>>
                /\ current'[p] = {Head(backlog[p])}
          /\ pc[p] = "handling" /\ pc'[p] # "handling" =>
                /\ pc'[p] = "listening"
                /\ current'[p] = {}
          /\ pc[p] \in Serving /\ current'[p] # current[p] =>
                pc'[p] # pc[p]
      ]_vars

\* An instance is handling one request while another connection, whose
\* request has already been sent, waits to be accepted.
C8_Witness ==
    \E p \in Procs : \E c \in Clients :
        /\ pc[p] = "handling"
        /\ backlog[p] # <<>>
        /\ conn[Head(backlog[p])].sent
        /\ current[p] = {c} /\ conn[c].sent

\* A client that is connected, accepted, and has neither sent its request
\* nor closed.
Hung(c) == conn[c].state = "accepted" /\ ~conn[c].sent

\* C9: while the client being handled stays hung, the instance stays in
\* Handling-Request on that connection: it accepts no other connection,
\* answers no other client and logs nothing, so the requests queued behind
\* the hung connection are served only after it has ended.
C9_HungClientBlocks ==
    [][\A p \in Procs : \A c \in Clients :
          (c \in current[p] /\ pc[p] = "handling" /\ Hung(c) /\ Hung(c)') =>
              /\ pc'[p] = "handling"
              /\ current'[p] = current[p]
              /\ stdout'[p] = stdout[p]
              /\ Len(backlog'[p]) >= Len(backlog[p])
              /\ SubSeq(backlog'[p], 1, Len(backlog[p])) = backlog[p]
              /\ \A d \in Clients \ {c} :
                    conn[d].server = p =>
                        /\ conn'[d].resp = conn[d].resp
                        /\ (Done(d)' => Done(d))
      ]_vars

\* A hung client is being handled while another client's request, already
\* sent, waits behind it unanswered.
C9_Witness ==
    \E p \in Procs : \E c, d \in Clients :
        /\ pc[p] = "handling" /\ current[p] = {c} /\ Hung(c)
        /\ d \in Range(backlog[p])
        /\ conn[d].sent /\ conn[d].state = "queued"

\* ---- startup claims, checked under SpecBoot

P9090 == SetTo(<<"9", "0", "9", "0">>)

P8080 == SetTo(<<"8", "0", "8", "0">>)

\* C3: an instance that holds a listening socket holds exactly one: on
\* port 8080 when PORT is absent, on the port PORT names when PORT is set
\* to a valid port that was free (so with PORT=9090 it has not bound 8080),
\* which is the value of the global PORT; the global, once assigned, and
\* the bound port never change while the instance runs.
C3_BoundPort ==
    [][\A p \in Procs :
          /\ pc'[p] \in HasSocket =>
                /\ Cardinality(PortOf(p)') = 1
                /\ env'[p] = Unset => PortOf(p)' = {8080}
                /\ env'[p] = P8080 => PortOf(p)' = {8080}
                /\ env'[p] = P9090 =>
                       PortOf(p)' = {9090} /\ 8080 \notin PortOf(p)'
                /\ PORT'[p] # <<>>
                /\ PORT'[p][1] # 0 => PortOf(p)' = {PORT'[p][1]}
          /\ pc[p] \in HasSocket /\ pc'[p] \in HasSocket =>
                PortOf(p)' = PortOf(p)
          /\ PORT[p] # <<>> => PORT'[p] = PORT[p]
          /\ pc'[p] \notin HasSocket => PortOf(p)' = {}
      ]_vars

\* One instance serves on 9090 (PORT=9090) while the other serves on 8080
\* (PORT absent).
C3_Witness ==
    \E p, q \in Procs :
        /\ env[p] = P9090 /\ pc[p] = "listening" /\ PortOf(p) = {9090}
        /\ env[q] = Unset /\ pc[q] = "listening" /\ PortOf(q) = {8080}

\* Another instance holds a listening socket on the port p resolved.
PortTaken(p) ==
    \E s \in ports : s.owner # p /\ PORT[p] # <<>> /\ s.port = PORT[p][1]

\* C4: when an instance reaches its bind while another instance holds the
\* port, its next step is a fatal startup failure (OSError): it binds
\* nothing, prints nothing, and the other instance's socket, position,
\* queue and output are untouched.  A failed instance stays failed (no
\* retry), has printed nothing, holds no socket and has served no client.
C4_SecondInstanceFails ==
    [][\A p \in Procs :
          /\ (pc[p] = "resolved" /\ PortTaken(p)
                /\ pc'[p] \notin {"resolved", "killed"}) =>
                /\ pc'[p] = "crashed"
                /\ error'[p] = "OSError"
                /\ ports' = ports
                /\ \A q \in Procs \ {p} :
                      /\ pc'[q] = pc[q] /\ stdout'[q] = stdout[q]
                      /\ backlog'[q] = backlog[q] /\ current'[q] = current[q]
          /\ pc'[p] = "crashed" =>
                /\ stdout'[p] = <<>>
                /\ PortOf(p)' = {}
                /\ \A c \in Clients : conn'[c].server # p
          /\ pc[p] = "crashed" => pc'[p] = "crashed" /\ error'[p] = error[p]
      ]_vars

\* The second instance has failed on the port the first one holds, and the
\* first one has answered a client.
C4_Witness ==
    \E p, q \in Procs :
        /\ p # q
        /\ pc[p] = "crashed" /\ error[p] = "OSError"
        /\ PORT[p] = PORT[q] /\ PortOf(q) = {PORT[p][1]}
        /\ pc[q] = "listening"
        /\ \E c \in Clients : conn[c].server = q /\ Done(c)

\* Values of PORT that are present and are not integers.
NotIntegers ==
    { SetTo(<<"a", "b", "c">>), SetTo(<<>>),
      SetTo(<<"9", "0", "9", "0", "x">>) }

\* C7: an instance started with a PORT that is not an integer never gets
\* past line 8: it assigns no PORT, binds no socket, prints nothing, serves
\* no client, and ends with a ValueError (unless it is killed first).
C7_InvalidPortFails ==
    \A p \in Procs :
        env[p] \in NotIntegers =>
            /\ pc[p] \in {"start", "crashed", "killed"}
            /\ pc[p] = "crashed" => error[p] = "ValueError"
            /\ PORT[p] = <<>>
            /\ PortOf(p) = {}
            /\ stdout[p] = <<>>
            /\ \A c \in Clients : conn[c].server # p

\* One instance has failed on a non-numeric PORT and the other on an empty
\* one, while port 8080 is free.
C7_Witness ==
    \E p, q \in Procs :
        /\ env[p] = SetTo(<<"a", "b", "c">>) /\ pc[p] = "crashed"
        /\ env[q] = SetTo(<<>>) /\ pc[q] = "crashed"
        /\ ~InUse(DefaultPort)

\* Clients instance p has accepted.
Accepted(p) ==
    {c \in Clients : conn[c].server = p /\ conn[c].state \in {"accepted", "done"}}

\* C10: the port is resolved before the socket is bound, the socket is
\* bound before the startup message is printed, and the message is printed
\* before any connection is accepted: the first line of output is the
\* startup message, printed by an instance that holds its socket, and an
\* instance that is serving or has accepted a client has printed it.  A
\* serving instance leaves the accept loop only by being killed.
C10_StartupOrder ==
    [][\A p \in Procs :
          /\ PortOf(p)' # {} => PORT'[p] # <<>>
          /\ stdout'[p] # stdout[p] /\ stdout[p] = <<>> =>
                /\ PortOf(p) # {} /\ PortOf(p)' = PortOf(p)
                /\ stdout'[p] = <<StartupMessage(PORT[p][1])>>
          /\ (pc'[p] \in Serving \/ Accepted(p)' # {}) =>
                /\ stdout'[p] # <<>>
                /\ stdout'[p][1].kind = "startup"
          /\ pc[p] \in Serving /\ pc'[p] \notin Serving => pc'[p] = "killed"
      ]_vars

\* An instance has printed the startup message and then answered a client.
C10_Witness ==
    \E p \in Procs :
        /\ pc[p] = "listening"
        /\ Len(stdout[p]) = 2
        /\ stdout[p][1] = StartupMessage(PORT[p][1])
        /\ \E c \in Clients : conn[c].server = p /\ Done(c)

\* ---- concurrent GETs, checked under SpecGets

\* The response do_GET produces for an HTTP/1.x request.
FixedResponse ==
    [statusline |-> <<200>>,
     headers |-> << <<"Content-Type", "text/plain">> >>,
     body |-> Greeting]

\* C5: whenever a client has connected to issue its GET, it eventually
\* holds a complete response, and a response a client holds is always the
\* fixed 200 response, whatever the other clients do.
C5_EveryGetAnswered ==
    /\ \A c \in Clients :
          (conn[c].state = "queued") ~> (Done(c) /\ conn[c].resp = FixedResponse)
    /\ [](\A c \in Clients :
             /\ conn[c].resp \in {NoOutput, FixedResponse}
             /\ Done(c) => conn[c].resp = FixedResponse)

\* All clients are connected to the same instance at once, none answered.
C5_Witness ==
    \E p \in Procs :
        \A c \in Clients :
            conn[c].server = p /\ conn[c].state \in {"queued", "accepted"}
=============================================================================
